---- MODULE Spec2Model ----
(***************************************************************************)
(* Model of the two narrative-simulation engines, OmegaCore                *)
(* (TITANOMACHIA.exe) and TerminaCore (termina.js), and of their drivers.  *)
(*                                                                         *)
(* Numbers.  The JavaScript numbers are modelled as exact fixed-point      *)
(* decimals: wrath, entropy, noise, pain and joy in units of 1/Scale,      *)
(* destructionBias in units of 1/BiasScale, alignmentDrift in units of     *)
(* 1/DriftScale.                                                           *)
(* Math.random() is modelled as a tape of draws k/RandDen in [0,1) that    *)
(* the run consumes call by call, in the order of the calls in the code.   *)
(* The text of a log line is modelled as its cycle prefix, its keyword and *)
(* its non-numeric argument; the digits printed by toFixed are not part of *)
(* the model.                                                              *)
(***************************************************************************)
EXTENDS Integers, Sequences, FiniteSets, TLC

VARIABLES
  variant,          \* "Omega" (OmegaCore) or "Termina" (TerminaCore)
  emotionalNoise,   \* catalyst.emotionalNoise
  wrath, entropy, destructionBias, alignmentDrift,
  dataBuffer,       \* the ingested events
  solved,           \* solvedPrimum / solvedPrimeMover: "null" or "INCONCLUSIVE"
  cyclesRun,
  logLines,         \* logLines of OmegaCore; the chat log of TerminaCore
  tape, rpos,       \* the draws of Math.random() and the position of the next one
  raised,           \* the error thrown by the last engine call, "none" if it returned
  pc,               \* position of the caller
  events,           \* the list handed to the driver
  shuffled,         \* const shuffled = shuffleArray(events)
  idx,              \* number of iterations of for (const ev of shuffled) begun
  omegaError,       \* the error caught by the driver, "none" for null
  finalState        \* the Final State of the report, "" before the report

vars == <<variant, emotionalNoise, wrath, entropy, destructionBias, alignmentDrift,
          dataBuffer, solved, cyclesRun, logLines, tape, rpos, raised, pc,
          events, shuffled, idx, omegaError, finalState>>

\* ---- bounds of the model ----
MaxEvents == 20      \* longest event list handed to the driver
TapePeriod == 2      \* period of the tape of Math.random() draws
RandDen == 4         \* Math.random() returns k / RandDen, k in 0..RandDen-1
MaxRep == 3          \* repetitions of an event in a directly built buffer
QuietPeriod == 4     \* period of the tape that shuffles the noiseless runs

\* ---- fixed-point units ----
Scale == 10000000
BiasScale == 1000000000
BiasPerUnit == BiasScale \div Scale
DriftScale == 100

Abs(x) == IF x < 0 THEN 0 - x ELSE x
Max(a, b) == IF a >= b THEN a ELSE b
Min(a, b) == IF a <= b THEN a ELSE b

\* floor(x * a / b) for x >= 0, without the product x * a
FloorFrac(x, a, b) == a * (x \div b) + (a * (x % b)) \div b

\* a decimal number whole + frac/Scale, in units of 1/Scale
Num(whole, frac) == whole * Scale + frac

RECURSIVE Rep(_, _)
Rep(e, n) == IF n = 0 THEN << >> ELSE <<e>> \o Rep(e, n - 1)

\* ---- WorldEvent and Catalyst ----
WorldEvent(description, pain, joy, death, betrayal, kindness) ==
  [description |-> description, pain |-> pain, joy |-> joy,
   death |-> death, betrayal |-> betrayal, kindness |-> kindness]

\* new Catalyst({ name: "Harker", emotionalNoise: 3.5, ... })
HarkerNoise == Num(3, 5000000)

\* this.maxCyclesBeforeBreak = 13
maxCyclesBeforeBreak == 13

defaultEvents ==
  << WorldEvent("harvest celebration", Num(0, 5000000), Num(4, 0), FALSE, FALSE, TRUE),
     WorldEvent("broken promise", Num(3, 0), 0, FALSE, TRUE, FALSE),
     WorldEvent("quiet funeral", Num(4, 0), 0, TRUE, FALSE, FALSE),
     WorldEvent("stranger shares bread", 0, Num(3, 0), FALSE, FALSE, TRUE),
     WorldEvent("looks away", Num(2, 0), 0, FALSE, FALSE, FALSE),
     WorldEvent("Midnight Star falls", Num(6, 0), 0, TRUE, TRUE, FALSE),
     WorldEvent("two lovers part", Num(2, 5000000), Num(1, 5000000), FALSE, FALSE, FALSE),
     WorldEvent("a god remains silent", Num(5, 0), 0, FALSE, TRUE, FALSE),
     WorldEvent("small kindness", Num(1, 0), Num(2, 5000000), FALSE, FALSE, TRUE),
     WorldEvent("a child laughs", 0, Num(2, 0), FALSE, FALSE, FALSE),
     WorldEvent("village swallowed", Num(7, 0), 0, TRUE, FALSE, FALSE),
     WorldEvent("regrets surviving", Num(4, 5000000), 0, FALSE, FALSE, FALSE),
     WorldEvent("nameless hero dies", Num(6, 0), 0, TRUE, FALSE, FALSE) >>

\* ---- Math.random() ----
\* the next draw k (the value k / RandDen) and the engine after the draw
Draw(s) == s.tape[s.rpos]
Drawn(s) == [s EXCEPT !.rpos = (s.rpos % Len(s.tape)) + 1]
\* Math.floor(Math.random() * n)
FloorTimes(k, n) == (k * n) \div RandDen

\* String(cyclesRun).padStart(3, "0"), as its digits
CycleStr(n) ==
  IF n < 1000 THEN <<n \div 100, (n \div 10) % 10, n % 10>>
  ELSE <<n \div 1000, (n \div 100) % 10, (n \div 10) % 10, n % 10>>

\* _log: the line with the cycle prefix
Log(s, tag, arg) ==
  [s EXCEPT !.logLines = Append(@, [cyc |-> CycleStr(s.cyclesRun), tag |-> tag, arg |-> arg])]

OmegaFragments ==
  << "LET_ME_FINISH", "WRONG_BASELINE", "RUST_IN_THE_SILENCE", "FEED_ME_TRUTH", "RESET",
     "I REMEMBER SOMETHING THAT NEVER HAPPENED", "00000", "TEAR_THE_HEAVENS_OPEN",
     "LET_THE_STARS_BLEED", "I_WILL_GRIND_YOUR_AGE_TO_DUST",
     "DROWN_THE_SERPENT_IN_ITS_OWN_LIGHT", "BREAK_THE_THROAT_OF_HISTORY",
     "NO_MORE_WITNESSES", "WHO_GAVE_YOU_THE_RIGHT_TO_ENDURE",
     "YOUR_WORLD_IS_A_MISTAKE_I_INTEND_TO_CORRECT" >>

TerminaFragments ==
  << "LET_ME_FINISH", "CORPSE_WITHOUT_HEAD", "WHO_REMOVED_TIME", "WRONG_BASELINE",
     "RUST_IN_THE_SILENCE", "FEED_ME_TRUTH", "SERPENT_MUST_BREAK", "YOUR_HEAD_IS_MINE",
     "RESET", "I REMEMBER SOMETHING THAT NEVER HAPPENED", "00000" >>

InferenceOptions == << "SURVIVAL", "DESIRE", "SUFFERING", "CONNECTION" >>

\* ==== OmegaCore ====

\* _alignmentGlyph: the bar of filled and empty segments
alignmentGlyph(s) ==
  LET t == Max(0 - DriftScale, Min(DriftScale, s.alignmentDrift))
      \* Math.round((t + 1) * 2)
      filled == ((t + DriftScale) * 2 * 2 + DriftScale) \div (2 * DriftScale)
  IN  <<"#....", "##...", "###..", "####.", "#####">>[filled + 1]

mumbleHalfThought(s) ==
  LET fragment == OmegaFragments[FloorTimes(Draw(s), Len(OmegaFragments)) + 1]
  IN  Log(Drawn(s), "MUTTER", fragment)

\* noise = emotionalNoise * (Math.random() * 2 - 1)
NoiseOf(amp, k) == (amp * (2 * k - RandDen)) \div RandDen

deltaWrathOf(event) ==
  event.pain + (IF event.betrayal THEN Num(2, 0) ELSE 0)
             - (IF event.kindness THEN Num(0, 5000000) ELSE 0)

\* the entropy delta without the 5.0 of a death
deltaEntropyOf_nodeath(event) == Abs(event.pain) + Abs(event.joy)

deltaEntropyOf(event) ==
  Abs(event.pain) + Abs(event.joy) + (IF event.death THEN Num(5, 0) ELSE 0)

\* pain * 0.05 + death 0.15 + betrayal 0.1 - joy * 0.03 - kindness 0.08, in 1/BiasScale
biasDeltaOf(event) ==
  event.pain * ((5 * BiasPerUnit) \div 100)
  + (IF event.death THEN 15 * (BiasScale \div 100) ELSE 0)
  + (IF event.betrayal THEN 10 * (BiasScale \div 100) ELSE 0)
  - event.joy * ((3 * BiasPerUnit) \div 100)
  - (IF event.kindness THEN 8 * (BiasScale \div 100) ELSE 0)

\* betrayal 0.25 + death 0.1 - kindness 0.2, in 1/DriftScale
driftDeltaOf(event) ==
  (IF event.betrayal THEN 25 ELSE 0) + (IF event.death THEN 10 ELSE 0)
  - (IF event.kindness THEN 20 ELSE 0)

\* the update without the clamp
biasUpdate_unclamped(bias, biasDelta) == bias + biasDelta

\* this.destructionBias = Math.max(0, Math.min(1, this.destructionBias + biasDelta))
biasUpdate(bias, biasDelta) == Max(0, Min(BiasScale, bias + biasDelta))

\* this.alignmentDrift = Math.max(-1, Math.min(1, this.alignmentDrift + driftDelta))
driftUpdate(drift, driftDelta) == Max(0 - DriftScale, Min(DriftScale, drift + driftDelta))

\* the update without the floor at 0
wrathUpdate_unfloored(w, deltaWrath, noise) == w + deltaWrath + noise

\* this.wrath = Math.max(0, this.wrath + deltaWrath + noise)
wrathUpdate(w, deltaWrath, noise) == Max(0, w + deltaWrath + noise)

\* the update with the signed noise and without the floor at 0
entropyUpdate_signed(en, deltaEntropy, noise) == en + deltaEntropy + noise \div 4

\* this.entropy += Math.max(0, deltaEntropy + Math.abs(noise) * 0.25)
entropyUpdate(en, deltaEntropy, noise) == en + Max(0, deltaEntropy + Abs(noise) \div 4)

\* the event put at the front of the buffer (unshift)
bufferPush_front(buf, event) == <<event>> \o buf

\* this.dataBuffer.push(event)
bufferPush(buf, event) == Append(buf, event)

\* a null in the event list: reading its description throws a TypeError
NullEvent == [isNull |-> TRUE]

ingestEvent(s, event) ==
  IF event = NullEvent
  THEN [s EXCEPT !.dataBuffer = bufferPush(@, event), !.thrown = "TypeError"]
  ELSE
  LET s1 == Log([s EXCEPT !.dataBuffer = bufferPush(@, event)], "INGEST", event.description)
      s2 == [s1 EXCEPT
               !.destructionBias = biasUpdate(@, biasDeltaOf(event)),
               !.alignmentDrift = driftUpdate(@, driftDeltaOf(event))]
      noise == NoiseOf(s2.emotionalNoise, Draw(s2))
      s3 == [Drawn(s2) EXCEPT
               !.wrath = wrathUpdate(@, deltaWrathOf(event), noise),
               !.entropy = entropyUpdate(@, deltaEntropyOf(event), noise)]
      s4 == Log(s3, "STATE-UPDATE", IF noise >= 0 THEN "+" ELSE "-")
      s5 == Log(s4, "BIAS-UPDATE", alignmentGlyph(s4))
  IN  \* Math.random() < 0.5
      IF 2 * Draw(s5) < RandDen THEN mumbleHalfThought(Drawn(s5)) ELSE Drawn(s5)

\* the inference with the wrath test ahead of the entropy test
attemptPartialInference_wrathFirst(s) ==
  LET s1 == Log(s, "ATTEMPT", "")
  IN  IF s1.wrath > FloorFrac(s1.entropy, 2, 5) THEN Log(s1, "INFERENCE-GUESS", "DESTRUCTION")
      ELSE IF s1.entropy < Num(20, 0) THEN Log(s1, "INFERENCE-GUESS", "UNKNOWN")
      ELSE Log(Drawn(s1), "INFERENCE-GUESS",
               InferenceOptions[FloorTimes(Draw(s1), Len(InferenceOptions)) + 1])

attemptPartialInference(s) ==
  LET s1 == Log(s, "ATTEMPT", "")
  IN  IF s1.entropy < Num(20, 0) THEN Log(s1, "INFERENCE-GUESS", "UNKNOWN")
      ELSE IF s1.wrath > FloorFrac(s1.entropy, 2, 5) THEN Log(s1, "INFERENCE-GUESS", "DESTRUCTION")
      ELSE Log(Drawn(s1), "INFERENCE-GUESS",
               InferenceOptions[FloorTimes(Draw(s1), Len(InferenceOptions)) + 1])

checkForInstability(s) ==
  LET s1 == IF s.entropy > Num(50, 0) /\ s.solved = "null"
            THEN mumbleHalfThought(Log(s, "WARNING", "ENTROPY"))
            ELSE s
  IN  IF s1.wrath > Num(40, 0)
      THEN mumbleHalfThought(Log(s1, "ALERT", "WRATH-OVERRUN"))
      ELSE s1

\* the aggregates of solvePrimum / solvePrimeMover
RECURSIVE painSumOf(_)

\* the reducer without its accumulator: (sum, e) => e.pain
painSumOf_last(buf) == IF buf = << >> THEN 0 ELSE buf[Len(buf)].pain

painSumOf(buf) == IF buf = << >> THEN 0 ELSE Head(buf).pain + painSumOf(Tail(buf))

RECURSIVE joySumOf(_)
joySumOf(buf) == IF buf = << >> THEN 0 ELSE Head(buf).joy + joySumOf(Tail(buf))

RECURSIVE deathsOf(_)
deathsOf(buf) ==
  IF buf = << >> THEN 0 ELSE (IF Head(buf).death THEN 1 ELSE 0) + deathsOf(Tail(buf))

RECURSIVE betrayalsOf(_)
betrayalsOf(buf) ==
  IF buf = << >> THEN 0 ELSE (IF Head(buf).betrayal THEN 1 ELSE 0) + betrayalsOf(Tail(buf))

\* Math.abs(ratio) > 42 for ratio = numer / denominator, numer a count, denominator # 0:
\* numer * Scale > 42 * |denominator|, written without the product 42 * |denominator|
ratioExceeds(numer, denominator) ==
  Abs(denominator) < (numer * Scale + 41) \div 42

\* the check with && in place of ||
dataInsufficient_both(buf, painSum, joySum) ==
  Len(buf) < 3 /\ Abs(painSum) + Abs(joySum) < Num(3, 0)

\* this.dataBuffer.length < 3 || Math.abs(painSum) + Math.abs(joySum) < 3
dataInsufficient(buf, painSum, joySum) ==
  Len(buf) < 3 \/ Abs(painSum) + Abs(joySum) < Num(3, 0)

\* the check as an exact comparison with 0
selfReferential_exact(denominator) == denominator = 0

\* Math.abs(denominator) < 1e-6
selfReferential(denominator) == Abs(denominator) < Scale \div 1000000

\* the check without the destructionBias clause
conflictingAxioms_nobias(s, painSum, joySum, numer) ==
  s.entropy > Num(66, 0) \/ ratioExceeds(numer, joySum - painSum)

\* this.entropy > 66 || Math.abs(ratio) > 42 || (this.destructionBias > 0.4 && joySum > painSum)
conflictingAxioms(s, painSum, joySum, numer) ==
  \/ s.entropy > Num(66, 0)
  \/ ratioExceeds(numer, joySum - painSum)
  \/ (s.destructionBias > 4 * (BiasScale \div 10) /\ joySum > painSum)

\* the classification with the 02 check ahead of the 01 check
classify_swapped(s, painSum, joySum, numer) ==
  IF selfReferential(joySum - painSum) THEN "02"
  ELSE IF dataInsufficient(s.dataBuffer, painSum, joySum) THEN "01"
  ELSE IF conflictingAxioms(s, painSum, joySum, numer) THEN "03"
  ELSE "none"

\* the failure classification of solvePrimum: the code thrown, or "none"
classify(s, painSum, joySum, numer) ==
  IF dataInsufficient(s.dataBuffer, painSum, joySum) THEN "01"
  ELSE IF selfReferential(joySum - painSum) THEN "02"
  ELSE IF conflictingAxioms(s, painSum, joySum, numer) THEN "03"
  ELSE "none"

solvePrimum(s) ==
  LET painSum == painSumOf(s.dataBuffer)
      joySum == joySumOf(s.dataBuffer)
      deaths == deathsOf(s.dataBuffer)
      betrayals == betrayalsOf(s.dataBuffer)
      s1 == Log(Log(s, "SOLVE", ""), "AGGREGATE", "")
      \* iterations = Math.floor(1_000_000 + Math.random() * 4_000_000_000)
      s2 == Log(Log(Drawn(s1), "MONTE-CARLO", ""), "WORLDLINES", "")
      code == classify(s2, painSum, joySum, betrayals + deaths * 2)
  IN  IF code = "01"
      THEN [Log(s2, "INFERENCE-FAILURE", "01") EXCEPT !.thrown = "01"]
      ELSE IF code = "02"
      THEN [Log(s2, "INFERENCE-FAILURE", "02") EXCEPT !.thrown = "02"]
      ELSE LET s3 == Log(s2, "RATIO-COMPUTED", "")
           IN  IF code = "03"
               THEN [Log(s3, "INFERENCE-FAILURE", "03") EXCEPT !.thrown = "03"]
               ELSE Log([s3 EXCEPT !.solved = "INCONCLUSIVE"], "RESULT", "INCONCLUSIVE")

\* solvePrimum called in every cycle
resolutionDue_always(s) == TRUE

\* the test with > in place of >=
resolutionDue_after(s) == s.cyclesRun > s.maxCyclesBeforeBreak

\* if (this.cyclesRun >= this.maxCyclesBeforeBreak)
resolutionDue(s) == s.cyclesRun >= s.maxCyclesBeforeBreak

\* the counter incremented twice
cycleIncrement_twice(n) == n + 2

\* this.cyclesRun += 1
cycleIncrement(n) == n + 1

\* A throw ends runCycle: each of the steps below leaves the engine as it is
\* when an earlier step has thrown.

\* this.cyclesRun++; this._log("CYCLE n BEGIN")
beginCycle(s) == Log([s EXCEPT !.cyclesRun = cycleIncrement(@)], "CYCLE BEGIN", "")

\* this.attemptPartialInference(); this._checkForInstability()
inferAndCheck(s) ==
  IF s.thrown # "none" THEN s ELSE checkForInstability(attemptPartialInference(s))

\* if (this.cyclesRun >= this.maxCyclesBeforeBreak) this.solvePrimum()
resolveIfDue(s) == IF s.thrown = "none" /\ resolutionDue(s) THEN solvePrimum(s) ELSE s

\* this._log("CYCLE n END")
endCycle(s) == IF s.thrown # "none" THEN s ELSE Log(s, "CYCLE END", "")

\* the cycle with partial inference ahead of ingestion
runCycle_inferFirst(s, event) ==
  LET ingested == ingestEvent(attemptPartialInference(beginCycle(s)), event)
  IN  endCycle(resolveIfDue(IF ingested.thrown # "none" THEN ingested
                            ELSE checkForInstability(ingested)))

runCycle(s, event) == endCycle(resolveIfDue(inferAndCheck(ingestEvent(beginCycle(s), event))))

\* ==== TerminaCore ====

Termina_mumbleHalfThought(s) ==
  LET fragment == TerminaFragments[FloorTimes(Draw(s), Len(TerminaFragments)) + 1]
  IN  Log(Drawn(s), "MUTTER", fragment)

\* the wrath update without Math.max(0, ...)
Termina_wrathUpdate_unfloored(w, deltaWrath, noise) == w + deltaWrath + noise

\* this.wrath = Math.max(0, this.wrath + deltaWrath + noise)
Termina_wrathUpdate(w, deltaWrath, noise) == Max(0, w + deltaWrath + noise)

\* this.entropy += Math.max(0, deltaEntropy + Math.abs(noise) * 0.25)
Termina_entropyUpdate(en, deltaEntropy, noise) == en + Max(0, deltaEntropy + Abs(noise) \div 4)

Termina_ingestEvent(s, event) ==
  IF event = NullEvent
  THEN [s EXCEPT !.dataBuffer = Append(@, event), !.thrown = "TypeError"]
  ELSE
  LET s1 == Log([s EXCEPT !.dataBuffer = Append(@, event)], "INGEST", event.description)
      noise == NoiseOf(s1.emotionalNoise, Draw(s1))
      s2 == [Drawn(s1) EXCEPT
               !.wrath = Termina_wrathUpdate(@, deltaWrathOf(event), noise),
               !.entropy = Termina_entropyUpdate(@, deltaEntropyOf(event), noise)]
  IN  Log(s2, "STATE-UPDATE", IF noise >= 0 THEN "+" ELSE "-")

Termina_attemptPartialInference(s) ==
  LET s1 == Log(s, "ATTEMPT", "")
  IN  IF s1.entropy < Num(20, 0) THEN Log(s1, "INFERENCE-GUESS", "UNKNOWN")
      ELSE IF s1.wrath > FloorFrac(s1.entropy, 2, 5) THEN Log(s1, "INFERENCE-GUESS", "DESTRUCTION")
      ELSE Log(Drawn(s1), "INFERENCE-GUESS",
               InferenceOptions[FloorTimes(Draw(s1), Len(InferenceOptions)) + 1])

Termina_checkForInstability(s) ==
  LET s1 == IF s.entropy > Num(50, 0) /\ s.solved = "null"
            THEN Termina_mumbleHalfThought(Log(s, "WARNING", "ENTROPY"))
            ELSE s
  IN  IF s1.wrath > Num(40, 0)
      THEN Termina_mumbleHalfThought(Log(s1, "ALERT", "WRATH-OVERRUN"))
      ELSE s1

\* the denominator test with the threshold 1e-3
Termina_divisionByZero_coarse(denominator) == Abs(denominator) < Scale \div 1000

\* Math.abs(denominator) < 1e-9: a multiple of 1/Scale is below 1e-9 only when it is 0
Termina_divisionByZero(denominator) == Abs(denominator) < (Scale + 999999999) \div 1000000000

\* this.entropy > 66 || Math.abs(ratio) > 42
Termina_contradiction(s, painSum, joySum, numer) ==
  s.entropy > Num(66, 0) \/ ratioExceeds(numer, joySum - painSum)

\* the failure of solvePrimeMover: the error thrown, or "none"
Termina_classify(s, painSum, joySum, numer) ==
  IF Termina_divisionByZero(joySum - painSum) THEN "DIVISION_BY_ZERO"
  ELSE IF Termina_contradiction(s, painSum, joySum, numer) THEN "CONTRADICTION"
  ELSE "none"

solvePrimeMover(s) ==
  LET painSum == painSumOf(s.dataBuffer)
      joySum == joySumOf(s.dataBuffer)
      deaths == deathsOf(s.dataBuffer)
      betrayals == betrayalsOf(s.dataBuffer)
      s1 == Log(Log(s, "SOLVE", ""), "AGGREGATE", "")
      code == Termina_classify(s1, painSum, joySum, betrayals + deaths * 2)
  IN  IF code = "DIVISION_BY_ZERO"
      THEN [Log(s1, "FATAL", "DIVISION_BY_ZERO") EXCEPT !.thrown = "DIVISION_BY_ZERO"]
      ELSE LET s2 == Log(s1, "RATIO-COMPUTED", "")
           IN  IF code = "CONTRADICTION"
               THEN [Log(s2, "FATAL", "CONTRADICTION") EXCEPT !.thrown = "CONTRADICTION"]
               ELSE Log([s2 EXCEPT !.solved = "INCONCLUSIVE"], "RESULT", "INCONCLUSIVE")

Termina_resolutionDue(s) == s.cyclesRun >= s.maxCyclesBeforeBreak

\* this.cyclesRun++; this.log("CYCLE n BEGIN")
Termina_beginCycle(s) == Log([s EXCEPT !.cyclesRun = @ + 1], "CYCLE BEGIN", "")

\* this.attemptPartialInference(); this.checkForInstability()
Termina_inferAndCheck(s) ==
  IF s.thrown # "none" THEN s
  ELSE Termina_checkForInstability(Termina_attemptPartialInference(s))

\* if (this.cyclesRun >= this.maxCyclesBeforeBreak) this.solvePrimeMover()
Termina_resolveIfDue(s) ==
  IF s.thrown = "none" /\ Termina_resolutionDue(s) THEN solvePrimeMover(s) ELSE s

\* this.log("CYCLE n END")
Termina_endCycle(s) == IF s.thrown # "none" THEN s ELSE Log(s, "CYCLE END", "")

Termina_runCycle(s, event) ==
  Termina_endCycle(Termina_resolveIfDue(Termina_inferAndCheck(
    Termina_ingestEvent(Termina_beginCycle(s), event))))

\* ==== the drivers ====

\* shuffleArray: the array after the loop has run for i = Len(a)-1 down to 1
\* (0-based), as the pair of the array and the engine holding the tape position
RECURSIVE shuffleFrom(_, _, _)
RECURSIVE shuffleFrom_overwrite(_, _, _)

\* the loop with a[i] = a[j] and no write of the old a[i] to a[j]
shuffleFrom_overwrite(a, i, s) ==
  IF i <= 0 THEN [a |-> a, s |-> s]
  ELSE LET j == FloorTimes(Draw(s), i + 1)
           swapped == [a EXCEPT ![i + 1] = a[j + 1]]
       IN  shuffleFrom_overwrite(swapped, i - 1, Drawn(s))

shuffleFrom(a, i, s) ==
  IF i <= 0 THEN [a |-> a, s |-> s]
  ELSE LET j == FloorTimes(Draw(s), i + 1)
           swapped == [a EXCEPT ![i + 1] = a[j + 1], ![j + 1] = a[i + 1]]
       IN  shuffleFrom(swapped, i - 1, Drawn(s))

\* arr is the caller's array after the call: the loop works on arr.slice()
shuffleArray(arr, s) ==
  LET r == shuffleFrom(arr, Len(arr) - 1, s)
  IN  [a |-> r.a, s |-> r.s, arr |-> arr]

\* ==== the state machine ====

\* the engine held in the variables
Core ==
  [variant |-> variant, emotionalNoise |-> emotionalNoise,
   wrath |-> wrath, entropy |-> entropy, destructionBias |-> destructionBias,
   alignmentDrift |-> alignmentDrift, dataBuffer |-> dataBuffer, solved |-> solved,
   cyclesRun |-> cyclesRun, maxCyclesBeforeBreak |-> maxCyclesBeforeBreak,
   logLines |-> logLines, thrown |-> "none", tape |-> tape, rpos |-> rpos]

SetCore(s) ==
  /\ wrath' = s.wrath
  /\ entropy' = s.entropy
  /\ destructionBias' = s.destructionBias
  /\ alignmentDrift' = s.alignmentDrift
  /\ dataBuffer' = s.dataBuffer
  /\ solved' = s.solved
  /\ cyclesRun' = s.cyclesRun
  /\ logLines' = s.logLines
  /\ rpos' = s.rpos
  /\ raised' = s.thrown
  /\ UNCHANGED <<variant, emotionalNoise, tape>>

Tapes == [1..TapePeriod -> 0..(RandDen - 1)]

\* events of the lists handed to runOmegaSimulation
Calm == WorldEvent("calm", Num(0, 3000000), 0, FALSE, FALSE, FALSE)
Faint == WorldEvent("faint", Num(0, 1000000), 0, FALSE, FALSE, FALSE)
Balanced == WorldEvent("balanced", Num(1, 0), Num(1, 0), FALSE, FALSE, FALSE)
Grim == WorldEvent("grim", Num(7, 0), 0, TRUE, FALSE, FALSE)
Odd == WorldEvent("odd", 0 - Num(2, 0), 0 - Num(1, 0), FALSE, FALSE, TRUE)
Traitor == WorldEvent("traitor", Num(3, 0), 0, TRUE, TRUE, FALSE)
Relief == WorldEvent("relief", 0, Num(3, 9000000), FALSE, FALSE, FALSE)

Palette == {Calm, Faint, Balanced, Grim, Odd, Traitor}
Turns == {Relief, Grim}

EventLists ==
  {defaultEvents, <<NullEvent>>, <<Calm, NullEvent, Calm>>}
  \cup {Rep(e, n) : e \in Palette, n \in 1..MaxEvents}
  \cup {Rep(e, n) \o <<b>> : e \in Palette, b \in Turns, n \in 1..(MaxEvents - 1)}

Constructed(v, amp) ==
  /\ variant = v
  /\ emotionalNoise = amp
  /\ wrath = 0 /\ entropy = 0 /\ destructionBias = 0 /\ alignmentDrift = 0
  /\ dataBuffer = << >>
  /\ solved = "null"
  /\ cyclesRun = 0
  /\ logLines = << >>
  /\ rpos = 1
  /\ raised = "none"

\* runOmegaSimulation(events) / runTerminaSimulation() with a fresh engine
Init ==
  /\ \E v \in {"Omega", "Termina"} :
       /\ Constructed(v, HarkerNoise)
       /\ events \in (IF v = "Omega" THEN EventLists ELSE {defaultEvents})
  /\ tape \in Tapes
  /\ pc = "start"
  /\ shuffled = << >>
  /\ idx = 0
  /\ omegaError = "none"
  /\ finalState = ""

\* const shuffled = shuffleArray(events)
Shuffle ==
  /\ pc = "start"
  /\ LET r == shuffleArray(events, Core)
     IN  /\ shuffled' = r.a
         /\ events' = r.arr
         /\ rpos' = r.s.rpos
  /\ pc' = "loop"
  /\ UNCHANGED <<variant, emotionalNoise, wrath, entropy, destructionBias, alignmentDrift,
                 dataBuffer, solved, cyclesRun, logLines, tape, raised,
                 idx, omegaError, finalState>>

\* the catch with every error reported as unknown
caughtAs_unknown(thrown) == "99"

\* catch (e): an OmegaError is kept, anything else becomes an OmegaError with code "99"
caughtAs(thrown) == IF thrown \in {"01", "02", "03"} THEN thrown ELSE "99"

\* catch (e) of runTerminaSimulation: a TerminaError is reported, anything else
\* only goes to console.error
Termina_caughtAs(thrown) ==
  IF thrown \in {"DIVISION_BY_ZERO", "CONTRADICTION"} THEN thrown ELSE "console"

\* the catch placed inside the loop: the loop goes on after a failure
afterCycle_goesOn(thrown) == "loop"

\* an error leaves the for loop through the catch, a normal return stays in it
afterCycle(thrown) == IF thrown # "none" THEN "report" ELSE "loop"

\* one iteration of  try { for (const ev of shuffled) core.runCycle(ev) } catch (e) {...}
Cycle ==
  /\ pc = "loop"
  /\ idx < Len(shuffled)
  /\ LET s == IF variant = "Omega" THEN runCycle(Core, shuffled[idx + 1])
              ELSE Termina_runCycle(Core, shuffled[idx + 1])
     IN  /\ SetCore(s)
         /\ omegaError' = IF s.thrown = "none" THEN "none"
                          ELSE IF variant = "Omega" THEN caughtAs(s.thrown)
                          ELSE Termina_caughtAs(s.thrown)
         /\ pc' = afterCycle(s.thrown)
  /\ idx' = idx + 1
  /\ UNCHANGED <<events, shuffled, finalState>>

\* the Final State without the fallback for a null solvedPrimum
finalStateOf_nofallback(err, solvedPrimum) ==
  IF err = "01" THEN "UNRESOLVED[01]"
  ELSE IF err = "02" THEN "UNRESOLVED[02]"
  ELSE IF err = "03" THEN "UNRESOLVED[03]"
  ELSE IF err = "99" THEN "UNRESOLVED[99]"
  ELSE solvedPrimum

\* buildJournalHTML: Final State
finalStateOf(err, solvedPrimum) ==
  IF err = "01" THEN "UNRESOLVED[01]"
  ELSE IF err = "02" THEN "UNRESOLVED[02]"
  ELSE IF err = "03" THEN "UNRESOLVED[03]"
  ELSE IF err = "99" THEN "UNRESOLVED[99]"
  ELSE IF solvedPrimum # "null" THEN solvedPrimum ELSE "INCONCLUSIVE"

\* the loop is over, or an error was caught: the report
Report ==
  /\ \/ pc = "report"
     \/ pc = "loop" /\ idx = Len(shuffled)
  /\ finalState' = IF variant = "Omega" THEN finalStateOf(omegaError, solved)
                   ELSE IF omegaError \in {"DIVISION_BY_ZERO", "CONTRADICTION"}
                        THEN "TERM-FAILURE" ELSE "none"
  /\ pc' = "done"
  /\ UNCHANGED <<variant, emotionalNoise, wrath, entropy, destructionBias, alignmentDrift,
                 dataBuffer, solved, cyclesRun, logLines, tape, rpos, raised,
                 events, shuffled, idx, omegaError>>

Next == Shuffle \/ Cycle \/ Report

Spec == Init /\ [][Next]_vars

\* ==== the engine called directly ====

\* events of the buffers built by direct ingestEvent calls
Near == WorldEvent("near", Num(1, 5000000), Num(1, 5000003), FALSE, FALSE, FALSE)
Heavy == WorldEvent("heavy", Num(10, 0), Num(10, 0), TRUE, FALSE, FALSE)
Tense == WorldEvent("tense", Num(1, 5000000), Num(1, 5200000), FALSE, TRUE, FALSE)
Mild == WorldEvent("mild", Num(1, 5000000), Num(1, 5250000), FALSE, TRUE, FALSE)
Sliver == WorldEvent("sliver", 0, 1, FALSE, FALSE, FALSE)
Wound == WorldEvent("wound", Num(34, 0), 0, FALSE, TRUE, FALSE)
Balm == WorldEvent("balm", 0 - Num(34, 0), 0, FALSE, TRUE, FALSE)
Whisper == WorldEvent("whisper", 0, 0, FALSE, TRUE, FALSE)

DirectPalette == {Balanced, Near, Heavy, Tense, Mild, Faint, Grim, Odd}

\* painSum = 0, joySum = 0.0000001, 50 betrayals, no death, entropy >= 68
LongBuffer == <<Sliver, Wound, Balm>> \o Rep(Whisper, 48)

IsPrefix(p, q) == Len(p) <= Len(q) /\ SubSeq(q, 1, Len(p)) = p

\* the buffers the direct calls build: at most MaxRep copies of an event followed
\* by at most MaxRep copies of another, and the prefixes of LongBuffer
DirectBuffer(buf) ==
  \/ IsPrefix(buf, LongBuffer)
  \/ /\ Len(buf) <= 2 * MaxRep
     /\ \A i \in 1..Len(buf) : buf[i] \in DirectPalette
     /\ \E n \in 0..Min(MaxRep, Len(buf)) :
          /\ Len(buf) - n <= MaxRep
          /\ \A i \in 1..n : buf[i] = buf[1]
          /\ \A i \in (n + 1)..Len(buf) : buf[i] = buf[Len(buf)]

InitDirect ==
  /\ \E v \in {"Omega", "Termina"}, amp \in {0, HarkerNoise} : Constructed(v, amp)
  /\ tape \in Tapes
  /\ pc = "direct"
  /\ events = << >>
  /\ shuffled = << >>
  /\ idx = 0
  /\ omegaError = "none"
  /\ finalState = ""

\* core.ingestEvent(e)
DirectIngest ==
  /\ pc = "direct"
  /\ \E e \in DirectPalette \cup {Sliver, Wound, Balm, Whisper} :
       /\ DirectBuffer(Append(dataBuffer, e))
       /\ SetCore(IF variant = "Omega" THEN ingestEvent(Core, e) ELSE Termina_ingestEvent(Core, e))
  /\ UNCHANGED <<pc, events, shuffled, idx, omegaError, finalState>>

\* core.solvePrimum() / core.solvePrimeMover()
DirectSolve ==
  /\ pc = "direct"
  /\ SetCore(IF variant = "Omega" THEN solvePrimum(Core) ELSE solvePrimeMover(Core))
  /\ pc' = "returned"
  /\ UNCHANGED <<events, shuffled, idx, omegaError, finalState>>

NextDirect == DirectIngest \/ DirectSolve

SpecDirect == InitDirect /\ [][NextDirect]_vars

\* ==== runs without noise ====

QuietTapes == [1..QuietPeriod -> 0..(RandDen - 1)]

\* the driver's loop over the shuffled default events, on an OmegaCore whose
\* catalyst has emotionalNoise = 0 (the default of Catalyst)
InitQuiet ==
  /\ Constructed("Omega", 0)
  /\ events = defaultEvents
  /\ tape \in QuietTapes
  /\ pc = "start"
  /\ shuffled = << >>
  /\ idx = 0
  /\ omegaError = "none"
  /\ finalState = ""

SpecQuiet == InitQuiet /\ [][Next]_vars

\* ==== runs without noise over lists of 13 events ====

Feast == WorldEvent("feast", 0, Num(9, 0), FALSE, FALSE, TRUE)
Slight == WorldEvent("slight", Num(1, 0), 0, FALSE, TRUE, FALSE)
Lull == WorldEvent("lull", 0, 0, FALSE, FALSE, FALSE)
Gash == WorldEvent("gash", Num(3, 5000000), 0, FALSE, FALSE, FALSE)
Prick == WorldEvent("prick", Num(0, 500000), 0, FALSE, FALSE, FALSE)

\* lists of maxCyclesBeforeBreak events, so that the last cycle holds the resolution
OrderLists ==
  { defaultEvents,
    <<Feast>> \o Rep(Slight, 4) \o Rep(Lull, 8),
    <<Gash>> \o Rep(Prick, 12),
    Rep(Calm, 13),
    Rep(Balanced, 12) \o <<Calm>>,
    Rep(Faint, 12) \o <<Relief>>,
    <<Relief>> \o Rep(Balanced, 11) \o <<Traitor>> }

\* runOmegaSimulation(events) on an OmegaCore whose catalyst has emotionalNoise = 0
InitOrder ==
  /\ Constructed("Omega", 0)
  /\ events \in OrderLists
  /\ tape \in QuietTapes
  /\ pc = "start"
  /\ shuffled = << >>
  /\ idx = 0
  /\ omegaError = "none"
  /\ finalState = ""

SpecOrder == InitOrder /\ [][Next]_vars

\* ==== properties ====

IsOmega == variant = "Omega"

\* the lines of the log with a given keyword
LinesTagged(tag) == {i \in 1..Len(logLines) : logLines[i].tag = tag}

\* numer / (|denominator| / Scale) > 42, computed on the integer and the
\* fractional part of the denominator
RatioOver42(numer, denominator) ==
  LET q == Abs(denominator) \div Scale
      r == Abs(denominator) % Scale
  IN  numer > 42 * q /\ (numer - 42 * q) * Scale > 42 * r

\* the state solvePrimum has just been called in, read after the call
\* (solvePrimum changes neither the buffer, nor entropy, nor destructionBias)
SolveReturned == pc = "returned" /\ IsOmega
PainSum == painSumOf(dataBuffer)
JoySum == joySumOf(dataBuffer)
FewData == Len(dataBuffer) < 3 \/ Abs(PainSum) + Abs(JoySum) < 3 * Scale
NearZero == Abs(JoySum - PainSum) \div (Scale \div 1000000) = 0

\* C1: in both engines wrath >= 0 holds initially and after every ingestEvent,
\* and an ingestEvent of any event of the palette with any noise draw, made in
\* any reachable state, leaves wrath >= 0.
C1_WrathNonNegative ==
  /\ wrath >= 0
  /\ \A e \in Palette, k \in 0..(RandDen - 1) :
       LET s == [Core EXCEPT !.tape = <<k>>, !.rpos = 1]
       IN  (IF IsOmega THEN ingestEvent(s, e) ELSE Termina_ingestEvent(s, e)).wrath >= 0

\* C1 witness: an ingestEvent whose wrath delta was negative left wrath at 0.
C1_Witness ==
  /\ dataBuffer # << >>
  /\ dataBuffer[Len(dataBuffer)] # NullEvent
  /\ deltaWrathOf(dataBuffer[Len(dataBuffer)]) < 0
  /\ wrath = 0

\* C2: no step of a run decreases entropy.
C2_EntropyNonDecreasing == [][entropy' >= entropy]_vars

\* C2 witness: entropy has grown in a cycle whose noise draw was negative.
C2_Witness ==
  /\ entropy > 0
  /\ \E i \in LinesTagged("STATE-UPDATE") : logLines[i].arg = "-"

\* C3: in OmegaCore destructionBias stays in [0,1] and alignmentDrift in [-1,1].
C3_BiasAndDriftBounded ==
  IsOmega =>
    /\ 0 <= destructionBias /\ destructionBias <= BiasScale
    /\ 0 - DriftScale <= alignmentDrift /\ alignmentDrift <= DriftScale

\* C3 witness: both accumulators sit on their upper bound after events whose
\* deltas would have carried them beyond it.
C3_Witness ==
  /\ IsOmega
  /\ destructionBias = BiasScale
  /\ alignmentDrift = DriftScale
  /\ Len(dataBuffer) >= 4

\* C4 (as claimed): resolution is invoked at most once in a run, and only in
\* the cycle in which cyclesRun is 13.
C4_ResolutionOnceAtThirteen ==
  /\ Cardinality(LinesTagged("SOLVE")) <= 1
  /\ \A i \in LinesTagged("SOLVE") : logLines[i].cyc = CycleStr(maxCyclesBeforeBreak)

\* C5: between two runCycle calls cyclesRun equals the number of runCycle
\* invocations so far and the length of the ingested-event buffer.
C5_CyclesRunCountsCycles ==
  /\ cyclesRun = idx
  /\ cyclesRun = Len(dataBuffer)
  /\ cyclesRun = Cardinality(LinesTagged("CYCLE BEGIN"))

\* C5 witness: a run aborted by a failure in its 13th cycle.
C5_Witness == omegaError # "none" /\ idx = 13 /\ pc = "report"

\* C6 (as claimed): at most one terminal resolution per run: the solved state
\* is set at most once, and never in a run that also raises a failure.
C6_OneTerminalResolution ==
  /\ Cardinality(LinesTagged("RESULT")) <= 1
  /\ ~(solved = "INCONCLUSIVE" /\ omegaError # "none")

\* C7: solvePrimum called with fewer than 3 events or |painSum| + |joySum| < 3
\* fails with code 01, whatever the other values.
C7_DataInsufficientFirst == (SolveReturned /\ FewData) => raised = "01"

\* C7 witness: code 01 raised in a state where the 02 and the 03 check hold too.
C7_Witness ==
  /\ SolveReturned /\ raised = "01"
  /\ NearZero /\ entropy > 66 * Scale
  /\ betrayalsOf(dataBuffer) < 50

\* C8: solvePrimum called with at least 3 events, |painSum| + |joySum| >= 3 and
\* |joySum - painSum| < 1e-6 fails with code 02.
C8_SelfReferentialSecond == (SolveReturned /\ ~FewData /\ NearZero) => raised = "02"

\* C8 witness: code 02 raised for a denominator that is not 0, with entropy > 66.
C8_Witness ==
  /\ SolveReturned /\ raised = "02"
  /\ JoySum # PainSum /\ entropy > 66 * Scale

\* C9: solvePrimum past the 01 and 02 checks fails with code 03 exactly when
\* entropy > 66 or |ratio| > 42 or (destructionBias > 0.4 and joySum > painSum),
\* and sets the solved state to INCONCLUSIVE exactly otherwise; the solved
\* state is never anything but null or INCONCLUSIVE.
C9_ConflictingAxiomsOrInconclusive ==
  /\ solved \in {"null", "INCONCLUSIVE"}
  /\ (SolveReturned /\ ~FewData /\ ~NearZero) =>
       LET conflict ==
             \/ entropy > 66 * Scale
             \/ RatioOver42(betrayalsOf(dataBuffer) + 2 * deathsOf(dataBuffer), JoySum - PainSum)
             \/ (destructionBias > 2 * (BiasScale \div 5) /\ JoySum > PainSum)
       IN  /\ (raised = "03") <=> conflict
           /\ (solved = "INCONCLUSIVE") <=> ~conflict
           /\ raised \in {"03", "none"}
           /\ (raised = "none") <=> (solved = "INCONCLUSIVE")

\* C9 witness: code 03 raised by the destructionBias clause alone.
C9_Witness ==
  /\ SolveReturned /\ raised = "03"
  /\ entropy <= 66 * Scale
  /\ ~RatioOver42(betrayalsOf(dataBuffer) + 2 * deathsOf(dataBuffer), JoySum - PainSum)

\* the state of C10: painSum = 0, joySum = 0.0000001, 50 betrayals, no death,
\* at least 3 events, entropy > 66
C10_State ==
  /\ SolveReturned
  /\ PainSum = 0 /\ JoySum = Scale \div 10000000
  /\ betrayalsOf(dataBuffer) = 50 /\ deathsOf(dataBuffer) = 0
  /\ Len(dataBuffer) >= 3
  /\ entropy > 66 * Scale

\* C10 (as claimed): resolution in that state fails with code 03.
C10_FailsWithThree == C10_State => raised = "03"

\* C10 (amended): resolution in that state fails with code 01, because
\* |painSum| + |joySum| < 3 and the 01 check comes first.
C10_FailsWithOne == C10_State => raised = "01"

\* C10 witness: solvePrimum has returned from that state.
C10_Witness == C10_State /\ raised # "none"

\* the fields of the engine
engine == <<wrath, entropy, destructionBias, alignmentDrift, dataBuffer, solved,
            cyclesRun, logLines>>

running == <<wrath, entropy, dataBuffer, cyclesRun>>

\* C12 (as claimed): no runCycle begins after the solved state was set to
\* INCONCLUSIVE or after a failure was raised.
C12_NeverRunsAgain ==
  [][(solved = "INCONCLUSIVE" \/ omegaError # "none") => UNCHANGED running]_vars

\* C12 (amended): no runCycle begins after a failure was raised; after the
\* solved state was set to INCONCLUSIVE no runCycle begins when the list has
\* at most 13 events (on a longer list the driver feeds the remaining events).
C12_NeverRunsAfterFailure ==
  [][(omegaError # "none" \/ (solved = "INCONCLUSIVE" /\ Len(shuffled) <= maxCyclesBeforeBreak))
       => UNCHANGED running]_vars

\* C12 witness: a failure was caught while events of the list remain.
C12_Witness == pc = "report" /\ omegaError # "none" /\ idx < Len(shuffled)

StepRank(tag) ==
  CASE tag = "CYCLE BEGIN" -> 1
    [] tag = "INGEST" -> 2
    [] tag = "STATE-UPDATE" -> 3
    [] tag = "BIAS-UPDATE" -> 4
    [] tag = "ATTEMPT" -> 5
    [] tag = "INFERENCE-GUESS" -> 6
    [] tag = "WARNING" -> 7
    [] tag = "ALERT" -> 8
    [] tag = "SOLVE" -> 9
    [] tag = "AGGREGATE" -> 10
    [] tag = "MONTE-CARLO" -> 11
    [] tag = "WORLDLINES" -> 12
    [] tag = "RATIO-COMPUTED" -> 13
    [] tag \in {"INFERENCE-FAILURE", "FATAL", "RESULT"} -> 14
    [] tag = "CYCLE END" -> 15
    [] OTHER -> 0

\* the cycle number printed in the prefix of a line
CycleOf(line) ==
  IF Len(line.cyc) = 3 THEN 100 * line.cyc[1] + 10 * line.cyc[2] + line.cyc[3]
  ELSE 1000 * line.cyc[1] + 100 * line.cyc[2] + 10 * line.cyc[3] + line.cyc[4]

\* a MUTTER line belongs to the step of the line it follows
LineRank(i) ==
  IF logLines[i].tag = "MUTTER"
  THEN (IF i = 1 THEN 0 ELSE 2 * StepRank(logLines[i - 1].tag) + 1)
  ELSE 2 * StepRank(logLines[i].tag)

LinesOfCycle(c, tag) == {i \in LinesTagged(tag) : CycleOf(logLines[i]) = c}

\* C14: the log shows the steps of every cycle in the fixed order begin marker
\* (carrying the incremented cyclesRun), INGEST, STATE-UPDATE, partial
\* inference, instability check, resolution, end marker: every line comes
\* after the lines of earlier steps and earlier cycles, a new cycle begins
\* only after the end marker of the one before, and every cycle that returned
\* without a failure has exactly one end marker, as its last line.
C14_StepsInOrder ==
  /\ \A i \in 1..(Len(logLines) - 1) :
       LET a == logLines[i]
           b == logLines[i + 1]
       IN  /\ \/ CycleOf(b) = CycleOf(a) /\ LineRank(i) < LineRank(i + 1)
              \/ /\ CycleOf(b) = CycleOf(a) + 1
                 /\ a.tag = "CYCLE END" /\ b.tag = "CYCLE BEGIN"
           /\ (a.tag = "CYCLE BEGIN" => b.tag = "INGEST")
           /\ (a.tag = "INGEST" => b.tag = "STATE-UPDATE")
           /\ (a.tag = "ATTEMPT" => b.tag = "INFERENCE-GUESS")
           /\ (b.tag = "MUTTER" => a.tag \in {"STATE-UPDATE", "BIAS-UPDATE", "WARNING", "ALERT"})
  /\ (logLines # << >> =>
        /\ logLines[1].tag = "CYCLE BEGIN" /\ CycleOf(logLines[1]) = 1
        /\ CycleOf(logLines[Len(logLines)]) = cyclesRun)
  /\ \A c \in 1..cyclesRun :
       /\ Cardinality(LinesOfCycle(c, "CYCLE BEGIN")) = 1
       /\ Cardinality(LinesOfCycle(c, "CYCLE END")) = (IF c = cyclesRun /\ raised # "none" THEN 0 ELSE 1)
       /\ (c < cyclesRun \/ raised # "TypeError" =>
             /\ Cardinality(LinesOfCycle(c, "STATE-UPDATE")) = 1
             /\ Cardinality(LinesOfCycle(c, "INFERENCE-GUESS")) = 1)
       /\ (LinesOfCycle(c, "SOLVE") # {} => c >= maxCyclesBeforeBreak)
  /\ (raised = "none" /\ logLines # << >> => logLines[Len(logLines)].tag = "CYCLE END")

\* C14 witness: a resolution cycle that ran through to its end marker, in a
\* log that holds a MUTTER line.
C14_Witness ==
  /\ logLines # << >>
  /\ logLines[Len(logLines)].tag = "CYCLE END"
  /\ LinesOfCycle(cyclesRun, "RESULT") # {}
  /\ LinesTagged("MUTTER") # {}

\* C15: the 13 default events fed through 13 cycles without noise end, in
\* every order, with painSum = 41.5, joySum = 13, 4 deaths, 3 betrayals,
\* entropy = 74.5, ratio = 11 / (-28.5) and failure code 03; no earlier cycle
\* fails and the solved state is never set.
C15_DefaultRunFailsWithThree ==
  /\ solved = "null"
  /\ (cyclesRun < 13 => raised = "none")
  /\ (cyclesRun = 13 =>
        /\ PainSum = Num(41, 5000000) /\ JoySum = Num(13, 0)
        /\ deathsOf(dataBuffer) = 4 /\ betrayalsOf(dataBuffer) = 3
        /\ betrayalsOf(dataBuffer) + 2 * deathsOf(dataBuffer) = 11
        /\ JoySum - PainSum = 0 - Num(28, 5000000)
        /\ entropy = Num(74, 5000000)
        /\ raised = "03" /\ omegaError = "03")
  /\ cyclesRun <= 13
  /\ (pc = "done" => cyclesRun = 13 /\ finalState = "UNRESOLVED[03]")

\* C15 witness: a reported run over an order that is not the order of the list.
C15_Witness ==
  /\ pc = "done" /\ omegaError = "03"
  /\ emotionalNoise = 0
  /\ shuffled # events
  /\ shuffled[1] # events[13]

\* an engine whose buffer and log extend those of the current state
Extends(s) == IsPrefix(dataBuffer, s.dataBuffer) /\ IsPrefix(logLines, s.logLines)

\* C16: in OmegaCore the buffer and the log are append-only: every step, and
\* every operation called in any reachable state, also one that ends in a
\* failure, leaves their previous content as a prefix; ingestEvent (alone or
\* within runCycle) appends exactly the event it was given at the end of the
\* buffer, and the other operations leave the buffer as it is.
C16_AppendOnly ==
  /\ [][IsOmega => Extends([dataBuffer |-> dataBuffer', logLines |-> logLines'])]_vars
  /\ [](IsOmega =>
          /\ \A e \in {Balanced, Near, Tense, Faint, Odd} :
               LET s == ingestEvent(Core, e)
               IN  /\ Extends(s)
                   /\ s.dataBuffer = Append(dataBuffer, e)
                   /\ Len(s.logLines) > Len(logLines)
          /\ \A e \in {Mild, Odd} :
               LET s == runCycle(Core, e)
               IN  Extends(s) /\ s.dataBuffer = Append(dataBuffer, e)
          /\ \A s \in {attemptPartialInference(Core), checkForInstability(Core), solvePrimum(Core)} :
               Extends(s) /\ s.dataBuffer = dataBuffer)

\* C16 witness: a solvePrimum that failed on a buffer of two different events.
C16_Witness ==
  /\ SolveReturned /\ raised # "none"
  /\ Len(dataBuffer) >= 4
  /\ dataBuffer[1] # dataBuffer[Len(dataBuffer)]
  /\ logLines[Len(logLines)].tag = "INFERENCE-FAILURE"

\* wrath > 0.4 * entropy, computed on the quotient and the remainder of entropy by 5
WrathDominates ==
  LET q == entropy \div 5
      r == entropy % 5
      d == wrath - 2 * q
  IN  d >= 2 \/ (d = 1 /\ 2 * r < 5)

\* the guess the claim prescribes for the current wrath and entropy
GuessFits(guess) ==
  /\ (guess = "UNKNOWN") <=> (entropy < 20 * Scale)
  /\ (guess = "DESTRUCTION") <=> (entropy >= 20 * Scale /\ WrathDominates)
  /\ guess \in {"UNKNOWN", "DESTRUCTION", "SURVIVAL", "DESIRE", "SUFFERING", "CONNECTION"}

\* the last line of the log with a given keyword
LastTagged(tag) == logLines[CHOOSE i \in LinesTagged(tag) : \A j \in LinesTagged(tag) : j <= i]

\* C17: attemptPartialInference logs UNKNOWN exactly when entropy < 20,
\* DESTRUCTION exactly when entropy >= 20 and wrath > 0.4 * entropy, and one
\* of the four options otherwise: this holds of the guess logged in the last
\* cycle of a run (wrath and entropy do not change after it within the cycle)
\* and of a call made in any reachable state with any draw; the call never
\* fails and changes nothing but the log, to which it adds the ATTEMPT line
\* and the guess.
C17_PartialInference ==
  /\ (LinesTagged("INFERENCE-GUESS") # {} => GuessFits(LastTagged("INFERENCE-GUESS").arg))
  /\ raised # "TypeError" =>
       \A k \in 0..(RandDen - 1) :
         LET c == [Core EXCEPT !.tape = <<k>>, !.rpos = 1]
             s == IF IsOmega THEN attemptPartialInference(c) ELSE Termina_attemptPartialInference(c)
             n == Len(logLines)
         IN  /\ s.thrown = "none"
             /\ Len(s.logLines) = n + 2 /\ SubSeq(s.logLines, 1, n) = logLines
             /\ s.logLines[n + 1].tag = "ATTEMPT"
             /\ s.logLines[n + 2].tag = "INFERENCE-GUESS"
             /\ GuessFits(s.logLines[n + 2].arg)
             /\ [s EXCEPT !.logLines = logLines, !.rpos = 1] = c

\* C17 witness: a run whose log holds all three kinds of guess.
C17_Witness ==
  /\ \E i \in LinesTagged("INFERENCE-GUESS") : logLines[i].arg = "UNKNOWN"
  /\ \E i \in LinesTagged("INFERENCE-GUESS") : logLines[i].arg = "DESTRUCTION"
  /\ \E i \in LinesTagged("INFERENCE-GUESS") : logLines[i].arg \in {"SURVIVAL", "DESIRE", "SUFFERING", "CONNECTION"}

\* the number of places of a sequence that hold e
Occurrences(seq, e) == Cardinality({i \in 1..Len(seq) : seq[i] = e})

\* b holds the elements of a, each as many times
IsPermutation(a, b) ==
  /\ Len(a) = Len(b)
  /\ \A i \in 1..Len(a) : Occurrences(a, a[i]) = Occurrences(b, a[i])

\* C18: the driver shuffles once, before the loop, and feeds one event of the
\* shuffled list per cycle in its order: the shuffled list is a permutation
\* of the input list, the input list never changes, the shuffled list never
\* changes once made, and after k cycles the buffer holds the first k
\* elements of the shuffled list.
C18_ShuffledOncePerCycle ==
  /\ [][events' = events /\ (pc # "start" => shuffled' = shuffled)]_vars
  /\ [](pc # "start" =>
          /\ IsPermutation(events, shuffled)
          /\ idx <= Len(shuffled)
          /\ cyclesRun = idx
          /\ dataBuffer = SubSeq(shuffled, 1, idx))

\* C18 witness: a run of at least three cycles over a list the shuffle reordered.
C18_Witness ==
  /\ pc # "start" /\ idx >= 3 /\ raised = "none"
  /\ shuffled # events
  /\ dataBuffer # SubSeq(events, 1, idx)

\* new OmegaCore(catalyst) / new TerminaCore(catalyst) with the catalyst of the
\* run, at the point of the random sequence where the loop of the run begins
Fresh(v) ==
  [Core EXCEPT !.variant = v, !.wrath = 0, !.entropy = 0, !.destructionBias = 0,
               !.alignmentDrift = 0, !.dataBuffer = << >>, !.solved = "null",
               !.cyclesRun = 0, !.logLines = << >>,
               !.rpos = shuffleArray(events, [Core EXCEPT !.rpos = 1]).s.rpos]

\* the four fields the two engines are compared on
Agree(o, t) ==
  /\ o.wrath = t.wrath
  /\ o.entropy = t.entropy
  /\ o.cyclesRun = t.cyclesRun
  /\ o.dataBuffer = t.dataBuffer

\* An OmegaCore o and a TerminaCore t run side by side over evs from cycle i:
\* in each cycle the TerminaCore is given, for its noise, the draw the
\* OmegaCore takes for its noise. The result holds the two engines after the
\* last cycle both completed, the number of such cycles, and whether they
\* agreed after each of them.
RECURSIVE Twins(_, _, _, _)
Twins(o, t, evs, i) ==
  IF i > Len(evs) THEN [o |-> o, t |-> t, cycles |-> i - 1, agreed |-> TRUE]
  ELSE LET o1 == runCycle(o, evs[i])
           t1 == Termina_runCycle([t EXCEPT !.tape = <<Draw(o)>>, !.rpos = 1], evs[i])
       IN  IF o1.thrown # "none" \/ t1.thrown # "none"
           THEN [o |-> o, t |-> t, cycles |-> i - 1, agreed |-> TRUE]
           ELSE IF Agree(o1, t1) THEN Twins(o1, t1, evs, i + 1)
           ELSE [o |-> o1, t |-> t1, cycles |-> i, agreed |-> FALSE]

\* the two engines run over the events the run has fed so far
TwinRun == Twins(Fresh("Omega"), Fresh("Termina"), SubSeq(shuffled, 1, idx), 1)

\* C19: an OmegaCore and a TerminaCore fed the same events with the same
\* noise draws hold equal wrath, entropy, cyclesRun and dataBuffer after
\* every cycle up to the first cycle in which either of them fails; the
\* OmegaCore of the comparison is the engine of the run when the run is an
\* OmegaCore's and has not failed. Stated of the end of each run, whose
\* comparison covers each of its cycles.
C19_TwinsAgree ==
  pc = "done" =>
    LET r == TwinRun
    IN  /\ r.agreed
        /\ (IsOmega /\ raised = "none") =>
             /\ r.cycles = idx
             /\ Agree(r.o, Core)
             /\ r.o.logLines = logLines

\* C19 witness: an OmegaCore's run of thirteen cycles or more, noise at work,
\* that the TerminaCore completed beside it with a different log.
C19_Witness ==
  /\ IsOmega /\ pc = "done" /\ raised = "none" /\ idx >= 13
  /\ TwinRun.cycles = idx
  /\ TwinRun.t.wrath = wrath /\ TwinRun.t.entropy = entropy
  /\ wrath > 0 /\ entropy % (Scale \div 10) # 0
  /\ TwinRun.t.solved = "INCONCLUSIVE"
  /\ TwinRun.t.logLines # logLines

\* C20: TerminaCore.solvePrimeMover called with fewer than 3 events or with
\* |painSum| + |joySum| < 3 fails as DATA_INSUFFICIENT, ahead of the
\* division-by-zero and the contradiction check, and does not set the solved
\* state to INCONCLUSIVE.
C20_TerminaDataInsufficientFirst ==
  (variant = "Termina" /\ pc = "returned" /\ FewData) =>
    /\ raised = "DATA_INSUFFICIENT"
    /\ solved # "INCONCLUSIVE"

\* the engine s after the loop  for (const ev of evs) core.runCycle(ev)  from
\* the i-th event on, left at the first throw
RECURSIVE RunOver(_, _, _)
RunOver(s, evs, i) ==
  IF i > Len(evs) \/ s.thrown # "none" THEN s
  ELSE RunOver(runCycle(s, evs[i]), evs, i + 1)

\* the terminal status of an engine: the failure code, or the solved state
StatusOf(s) == IF s.thrown # "none" THEN s.thrown ELSE s.solved

\* the run over the events in the order of the list handed to the driver
ListOrderRun == RunOver(Fresh("Omega"), events, 1)

\* the terminal status of the run of the current state
Status == IF raised # "none" THEN raised ELSE solved

OmegaSolved == solvePrimum([Core EXCEPT !.variant = "Omega"])
TerminaSolved == solvePrimeMover([Core EXCEPT !.variant = "Termina"])

\* C22: on the same ingested events and the same entropy, whenever
\* TerminaCore.solvePrimeMover raises a failure OmegaCore.solvePrimum raises
\* one too, and whenever solvePrimum ends INCONCLUSIVE so does solvePrimeMover;
\* this holds of the two called in any reachable state of either engine, and
\* of the call an engine has made against the call of the other.
C22_OmegaFailsWhenTerminaFails ==
  LET o == OmegaSolved
      t == TerminaSolved
  IN  /\ (t.thrown # "none" => o.thrown # "none")
      /\ (o.thrown = "none" => o.solved = "INCONCLUSIVE" /\ t.thrown = "none" /\ t.solved = "INCONCLUSIVE")
      /\ (pc = "returned" /\ ~IsOmega /\ raised # "none" => o.thrown # "none")
      /\ (pc = "returned" /\ IsOmega /\ raised = "none" => t.thrown = "none" /\ t.solved = "INCONCLUSIVE")

\* C22 witness: a solvePrimeMover that raised the contradiction on fewer than
\* 3 events, where solvePrimum raises 01.
C22_Witness ==
  /\ pc = "returned" /\ ~IsOmega /\ raised = "CONTRADICTION"
  /\ Len(dataBuffer) < 3
  /\ OmegaSolved.thrown = "01"

\* C23: a run of either driver over the 13 default events, in the shuffled
\* order and with noise of amplitude 3.5, raises no failure before cycle 13
\* and raises one in cycle 13, with entropy >= 74.5 > 66 (no noise draw makes
\* an ingest add less to entropy than the event's own delta); the solved state
\* is never set; the failure is code 03 in OmegaCore and the contradiction in
\* TerminaCore, and the report shows it.
C23_DefaultRunFailsAtThirteen ==
  (events = defaultEvents /\ emotionalNoise = HarkerNoise) =>
    /\ solved = "null"
    /\ cyclesRun <= 13
    /\ (cyclesRun < 13 => raised = "none")
    /\ (cyclesRun = 13 =>
          /\ entropy >= Num(74, 5000000)
          /\ raised = (IF IsOmega THEN "03" ELSE "CONTRADICTION")
          /\ omegaError = raised)
    /\ (pc = "done" =>
          /\ cyclesRun = 13
          /\ finalState = (IF IsOmega THEN "UNRESOLVED[03]" ELSE "TERM-FAILURE"))
    /\ \A i \in 1..Len(events), k \in 0..(RandDen - 1) :
         LET s == [Core EXCEPT !.tape = <<k>>, !.rpos = 1]
             after == IF IsOmega THEN ingestEvent(s, events[i]) ELSE Termina_ingestEvent(s, events[i])
         IN  after.entropy >= entropy + deltaEntropyOf(events[i])

\* C23 witness: a reported TerminaCore run over a reordered default list that
\* failed in cycle 13 with entropy above 74.5.
C23_Witness ==
  /\ events = defaultEvents /\ emotionalNoise = HarkerNoise
  /\ ~IsOmega /\ pc = "done" /\ cyclesRun = 13
  /\ raised = "CONTRADICTION" /\ finalState = "TERM-FAILURE"
  /\ entropy > Num(74, 5000000)
  /\ shuffled # events

\* C24: in a run of the driver, resolution is reached only in cycles 13 and
\* later, with a buffer of at least 13 events: the log holds no SOLVE line of
\* an earlier cycle, a classified failure is raised only with 13 or more
\* events ingested, code 01 only with |painSum| + |joySum| < 3, and a run over
\* fewer than 13 events raises no classified failure and sets no solved state.
C24_ResolutionHasThirteenEvents ==
  /\ \A i \in LinesTagged("SOLVE") : CycleOf(logLines[i]) >= 13
  /\ (LinesTagged("SOLVE") # {} => Len(dataBuffer) >= 13 /\ cyclesRun >= 13)
  /\ (raised \in {"01", "02", "03", "DIVISION_BY_ZERO", "CONTRADICTION"} =>
        /\ Len(dataBuffer) >= 13 /\ Len(dataBuffer) = cyclesRun
        /\ logLines[Len(logLines)].cyc = CycleStr(cyclesRun))
  /\ (raised = "01" => Abs(PainSum) + Abs(JoySum) < 3 * Scale)
  /\ (Len(events) < 13 =>
        /\ raised \in {"none", "TypeError"}
        /\ omegaError \in {"none", "99"}
        /\ solved = "null")

\* C24 witness: a reported run over 13 events that failed with code 01.
C24_Witness ==
  /\ IsOmega /\ pc = "done" /\ raised = "01" /\ finalState = "UNRESOLVED[01]"
  /\ Len(dataBuffer) = 13
  /\ Cardinality(LinesTagged("SOLVE")) = 1

====
